---- MODULE Spec2Model ----
(***************************************************************************)
(* MiniPath (src/minipath/minipath.py): the entropy/PCA/clustering ranking *)
(* of low-magnification tiles (GetEntropy, MiniPath) and the mapping,      *)
(* extraction and filtering of high-magnification frames (MagPairs).       *)
(*                                                                         *)
(* Every routine is modelled as the steps of one call.  Each routine has a *)
(* specification of its own whose Init draws the call's inputs from        *)
(* bounded sets; the variables of the other routines stay idle.            *)
(* Python lists are sequences: the Python index i is the index i + 1 here. *)
(***************************************************************************)
EXTENDS Integers, Sequences, FiniteSets, TLC

VARIABLES
    \* GetEntropy.determine_optimal_components
    cpc, explained_variance, cum_exp_variance, n_components,
    \* GetEntropy.rank_patches_for_diversity, tile extraction
    tpc, img_size, patch_size, img_width, img_height,
    resized_patches, original_patches,
    \* GetEntropy.extract_entropy_feature_vector
    epc, patch_mode, patch_pixels, histogram_r, histogram_g, histogram_b,
    feature_vector,
    \* MagPairs.get_frame_dict, MagPairs.find_intersecting_frames
    gpc, dcm, fd, query, all_frames, intersecting_frames,
    \* MagPairs.frame_extraction
    fpc, fx_path, number_of_frames, frame_rows, requests, next_request,
    frame_generator, img_array, yielded,
    \* MagPairs.is_foreground
    fgpc, tile, foreground,
    \* GetEntropy.rank_patches_for_diversity, MiniPath.get_representatives
    rpc, min_k, max_k, subset, features, pca_features, wcss, n_clusters,
    results, img_to_use_at_low_mag,
    \* get_single_dcm_img
    apc, num_frames, grid_array,
    \* MiniPath.get_representatives, MiniPath.get_high_res: the instance
    low_res_dcm, high_mag_dcm, calls,
    \* MagPairs.__init__
    mpc, pixel_spacing_at_low_mag, pixel_spacing_at_high_mag, scaling_factor, minmax_list, high_mag_frame_list, frame_tiles, high_mag_frames, clean_high_mag_frames

compVars == <<cpc, explained_variance, cum_exp_variance, n_components>>
tileVars == <<tpc, img_size, patch_size, img_width, img_height,
              resized_patches, original_patches>>
entVars == <<epc, patch_mode, patch_pixels, histogram_r, histogram_g,
             histogram_b, feature_vector>>
gridVars == <<gpc, dcm, fd, query, all_frames, intersecting_frames>>
fxVars == <<fpc, fx_path, number_of_frames, frame_rows, requests,
            next_request, frame_generator, img_array, yielded>>
fgVars == <<fgpc, tile, foreground>>
rankVars == <<rpc, min_k, max_k, subset, features, pca_features, wcss,
              n_clusters, results, img_to_use_at_low_mag>>
asmVars == <<apc, num_frames, grid_array>>
pipeVars == <<low_res_dcm, high_mag_dcm, calls>>
magVars == <<mpc, pixel_spacing_at_low_mag, pixel_spacing_at_high_mag, scaling_factor, minmax_list, high_mag_frame_list, frame_tiles, high_mag_frames, clean_high_mag_frames>>
vars == <<compVars, tileVars, entVars, gridVars, fxVars, fgVars, rankVars,
         asmVars,
         pipeVars,
         magVars>>

----------------------------------------------------------------------------
(* General helpers *)

Min(a, b) == IF a <= b THEN a ELSE b
Max(a, b) == IF a >= b THEN a ELSE b
Abs(a) == IF a >= 0 THEN a ELSE 0 - a

RECURSIVE SeqSum(_)
SeqSum(s) == IF s = <<>> THEN 0 ELSE Head(s) + SeqSum(Tail(s))

\* Python range(start, stop, step) with step > 0, as a sequence
Range(start, stop, step) ==
    [k \in 1..(IF stop > start THEN (stop - start + step - 1) \div step ELSE 0)
        |-> start + (k - 1) * step]

----------------------------------------------------------------------------
(* GetEntropy.determine_optimal_components                                 *)
(* Variance ratios are counted in units of 1/VarUnits of the total         *)
(* variance; the threshold explained_variance is in the same units.        *)

VarUnits == 10
FeatureDim == 3

\* pca.explained_variance_ratio_ of a full PCA: non-negative, in descending
\* order, summing to the whole variance
VarianceRatios ==
    {r \in [1..FeatureDim -> 0..VarUnits] :
        /\ \A i \in 1..(FeatureDim - 1) : r[i] >= r[i + 1]
        /\ SeqSum(r) = VarUnits}

\* np.cumsum
CumSum(r) == [i \in 1..Len(r) |-> SeqSum(SubSeq(r, 1, i))]

\* np.argmax over a boolean array: the first index (0-based) holding True,
\* and 0 when none does
ArgmaxBool(b) ==
    IF \E i \in 1..Len(b) : b[i]
    THEN (CHOOSE i \in 1..Len(b) : b[i] /\ \A j \in 1..(i - 1) : ~b[j]) - 1
    ELSE 0

OptimalComponentsGeq(cum, threshold) ==
    LET n == ArgmaxBool([i \in 1..Len(cum) |-> cum[i] >= threshold]) + 1
    IN  IF n < 2 THEN 2 ELSE n

OptimalComponents(cum, threshold) ==
    LET n == ArgmaxBool([i \in 1..Len(cum) |-> cum[i] > threshold]) + 1
    IN  IF n < 2 THEN 2 ELSE n

CompIdle ==
    /\ cpc = "idle"
    /\ explained_variance = 0
    /\ cum_exp_variance = <<>>
    /\ n_components = 0

CompInit ==
    /\ cpc = "called"
    /\ explained_variance \in 0..VarUnits
    /\ \E r \in VarianceRatios : cum_exp_variance = CumSum(r)
    /\ n_components = 0

DetermineOptimalComponents ==
    /\ cpc = "called"
    /\ n_components' = OptimalComponents(cum_exp_variance, explained_variance)
    /\ cpc' = "done"
    /\ UNCHANGED <<explained_variance, cum_exp_variance>>

----------------------------------------------------------------------------
(* GetEntropy.rank_patches_for_diversity: the tile grid                    *)
(* A patch is its crop box (left, upper, right, lower) and its origin.     *)

MaxImgSize == 6
MaxPatchSize == 3
MaxImgDim == 8

\* int(v * scale_factor) with scale_factor = extent / img_size
ScaleCoord(v, extent, size) == (v * extent) \div size

Patch(left, upper, right, lower) ==
    [box |-> <<left, upper, right, lower>>, coord |-> <<left, upper>>]

\* The list comprehension "for x in range(...) for y in range(...)": x is the
\* outer loop, y the inner one; the sequence of (x, y)
PatchCoordsRowMajor(size, patch) ==
    LET xs == Range(0, size, patch)
        ys == Range(0, size, patch)
    IN  [k \in 1..(Len(xs) * Len(ys)) |->
            <<xs[((k - 1) % Len(xs)) + 1], ys[((k - 1) \div Len(xs)) + 1]>>]

PatchCoords(size, patch) ==
    LET xs == Range(0, size, patch)
        ys == Range(0, size, patch)
    IN  [k \in 1..(Len(xs) * Len(ys)) |->
            <<xs[((k - 1) \div Len(ys)) + 1], ys[((k - 1) % Len(ys)) + 1]>>]

\* img_resized.crop((x, y, x + patch_size, y + patch_size)), (x, y)
ResizedPatches(size, patch) ==
    LET xy == PatchCoords(size, patch)
    IN  [k \in 1..Len(xy) |->
            Patch(xy[k][1], xy[k][2], xy[k][1] + patch, xy[k][2] + patch)]

\* self.img.crop(...) with the box scaled back to the original resolution
OriginalPatches(size, patch, width, height) ==
    LET xy == PatchCoords(size, patch)
    IN  [k \in 1..Len(xy) |->
            Patch(ScaleCoord(xy[k][1], width, size),
                  ScaleCoord(xy[k][2], height, size),
                  ScaleCoord(xy[k][1] + patch, width, size),
                  ScaleCoord(xy[k][2] + patch, height, size))]

TileIdle ==
    /\ tpc = "idle"
    /\ img_size = 0
    /\ patch_size = 0
    /\ img_width = 0
    /\ img_height = 0
    /\ resized_patches = <<>>
    /\ original_patches = <<>>

TileInit ==
    /\ tpc = "called"
    /\ img_size \in 1..MaxImgSize
    /\ patch_size \in 1..MaxPatchSize
    /\ img_width \in {MaxImgDim \div 2, MaxImgDim}
    /\ img_height \in {MaxImgDim \div 2, MaxImgDim}
    /\ resized_patches = <<>>
    /\ original_patches = <<>>

ExtractPatches ==
    /\ tpc = "called"
    /\ resized_patches' = ResizedPatches(img_size, patch_size)
    /\ original_patches' =
           OriginalPatches(img_size, patch_size, img_width, img_height)
    /\ tpc' = "extracted"
    /\ UNCHANGED <<img_size, patch_size, img_width, img_height>>

----------------------------------------------------------------------------
(* GetEntropy.extract_entropy_feature_vector, entropy_from_histogram       *)
(* A tile is its mode and its pixels, each pixel a tuple of band values.   *)

HistBins == 256
TilePixels == 2
BandLevels == {0, HistBins - 1}

Bands(mode) == CASE mode = "RGB" -> 3 [] mode = "RGBA" -> 4 [] OTHER -> 1

\* Image.histogram(): the per-band histograms of HistBins bins, concatenated
Histogram(pixels, bands) ==
    [b \in 1..(HistBins * bands) |->
        Cardinality({i \in 1..Len(pixels) :
            pixels[i][((b - 1) \div HistBins) + 1] = (b - 1) % HistBins})]

\* The Python slice s[a:b] for 0 <= a, 0 <= b
PySlice(s, a, b) == SubSeq(s, Min(a, Len(s)) + 1, Min(b, Len(s)))

\* float(h) / hist_length raises ZeroDivisionError for a histogram that has
\* bins and no counts
EntropyDefined(histogram) ==
    histogram = <<>> \/ \E i \in 1..Len(histogram) : histogram[i] > 0

\* -sum(p * log2(p)) over the nonzero bins depends only on how many bins
\* hold each nonzero count: the entropy is kept as that table
EntropyFromHistogram(histogram) ==
    [c \in {histogram[i] : i \in 1..Len(histogram)} \ {0} |->
        Cardinality({i \in 1..Len(histogram) : histogram[i] = c})]

EntIdle ==
    /\ epc = "idle"
    /\ patch_mode = "none"
    /\ patch_pixels = <<>>
    /\ histogram_r = <<>>
    /\ histogram_g = <<>>
    /\ histogram_b = <<>>
    /\ feature_vector = <<>>

EntInit ==
    /\ epc = "called"
    /\ patch_mode \in {"RGB", "RGBA", "L"}
    /\ patch_pixels \in [1..TilePixels -> [1..Bands(patch_mode) -> BandLevels]]
    /\ histogram_r = <<>>
    /\ histogram_g = <<>>
    /\ histogram_b = <<>>
    /\ feature_vector = <<>>

ExtractEntropyFeatureVector ==
    /\ epc = "called"
    /\ IF patch_mode # "RGB"
       THEN /\ epc' = "ValueError"
            /\ UNCHANGED <<histogram_r, histogram_g, histogram_b, feature_vector>>
       ELSE LET h == Histogram(patch_pixels, Bands(patch_mode))
                r == PySlice(h, 0, img_size)
                g == PySlice(h, img_size, img_size * 2)
                b == PySlice(h, img_size * 2, img_size * 3)
            IN  /\ histogram_r' = r
                /\ histogram_g' = g
                /\ histogram_b' = b
                /\ IF EntropyDefined(r) /\ EntropyDefined(g) /\ EntropyDefined(b)
                   THEN /\ feature_vector' = <<EntropyFromHistogram(r),
                                               EntropyFromHistogram(g),
                                               EntropyFromHistogram(b)>>
                        /\ epc' = "done"
                   ELSE /\ feature_vector' = <<>>
                        /\ epc' = "ZeroDivisionError"
    /\ UNCHANGED <<patch_mode, patch_pixels>>

----------------------------------------------------------------------------
(* parse_dcm_info, MagPairs.get_frame_dict, MagPairs.find_intersecting_frames *)

MaxFrameDim == 2
MaxMatrixDim == 4
MaxQueryCoord == 4

\* int(np.ceil(total / size))
CeilDiv(total, size) == (total + size - 1) \div size

ParseDcmInfoFloor(d) ==
    [grid_cols |-> d.TotalPixelMatrixColumns \div d.Columns,
     grid_rows |-> d.TotalPixelMatrixRows \div d.Rows]

ParseDcmInfo(d) ==
    [grid_cols |-> CeilDiv(d.TotalPixelMatrixColumns, d.Columns),
     grid_rows |-> CeilDiv(d.TotalPixelMatrixRows, d.Rows)]

\* "for row in range(grid_rows): for col in range(grid_cols)": the k-th
\* append happens at row (k - 1) div grid_cols, col (k - 1) mod grid_cols,
\* with frame_index = k - 1
FrameDict(d) ==
    LET g == ParseDcmInfo(d)
    IN  [k \in 1..(g.grid_rows * g.grid_cols) |->
            LET row == (k - 1) \div g.grid_cols
                col == (k - 1) % g.grid_cols
            IN  [row_min |-> row * d.Rows, row_max |-> row * d.Rows + d.Rows,
                 col_min |-> col * d.Columns,
                 col_max |-> col * d.Columns + d.Columns,
                 frame |-> k - 1]]

\* The test of find_intersecting_frames; "and" binds tighter than "or"
IntersectsStrict(frame_data, x_min, x_max, y_min, y_max, all) ==
    \/ /\ (x_min < frame_data.col_max /\ x_max > frame_data.col_min)
       /\ (y_min < frame_data.row_max /\ y_max > frame_data.row_min)
    \/ all

Intersects(frame_data, x_min, x_max, y_min, y_max, all) ==
    \/ /\ (x_min <= frame_data.col_max /\ x_max >= frame_data.col_min)
       /\ (y_min <= frame_data.row_max /\ y_max >= frame_data.row_min)
    \/ all

\* The loop over fd appending the frames that pass the test
RECURSIVE IntersectingFrames(_, _, _, _, _, _)
IntersectingFrames(frames, x_min, x_max, y_min, y_max, all) ==
    IF frames = <<>> THEN <<>>
    ELSE (IF Intersects(Head(frames), x_min, x_max, y_min, y_max, all)
          THEN <<Head(frames)>> ELSE <<>>)
         \o IntersectingFrames(Tail(frames), x_min, x_max, y_min, y_max, all)

GridIdle ==
    /\ gpc = "idle"
    /\ dcm = <<>>
    /\ fd = <<>>
    /\ query = <<>>
    /\ all_frames = FALSE
    /\ intersecting_frames = <<>>

GridInit ==
    /\ gpc = "called"
    /\ dcm \in [Rows : 1..MaxFrameDim, Columns : 1..MaxFrameDim,
                 TotalPixelMatrixRows : 1..MaxMatrixDim,
                 TotalPixelMatrixColumns : 1..MaxMatrixDim]
    /\ fd = <<>>
    /\ query = <<>>
    /\ all_frames = FALSE
    /\ intersecting_frames = <<>>

GetFrameDict ==
    /\ gpc = "called"
    /\ fd' = FrameDict(dcm)
    /\ gpc' = "grid"
    /\ UNCHANGED <<dcm, query, all_frames, intersecting_frames>>

FindIntersectingFrames ==
    /\ gpc = "grid"
    /\ \E x_min, x_max, y_min, y_max \in 0..MaxQueryCoord, all \in BOOLEAN :
           /\ x_min <= x_max
           /\ y_min <= y_max
           /\ query' = [x_min |-> x_min, x_max |-> x_max,
                        y_min |-> y_min, y_max |-> y_max]
           /\ all_frames' = all
           /\ intersecting_frames' =
                  IntersectingFrames(fd, x_min, x_max, y_min, y_max, all)
    /\ gpc' = "found"
    /\ UNCHANGED <<dcm, fd>>

----------------------------------------------------------------------------
(* MagPairs.frame_extraction                                               *)
(* requests is high_mag_frame_list in the order the two nested loops visit *)
(* it, each request the frame id of its descriptor j.  The descriptors are *)
(* the dicts of fd, one per frame id, so img_array is kept per frame id.   *)
(* The decoded data of the encoded unit i is [kind |-> "frame", index |->  *)
(* i]; yielded holds each descriptor as the consumer receives it.          *)

MaxFrames == 3
MaxRequests == 3

FrameData(i) == [kind |-> "frame", index |-> i]

\* dcm.pixel_array[frame_id]: the array is (frames, rows, columns, channels)
\* for several frames and (rows, columns, channels) for a single one, so
\* the index selects a pixel row of a single-frame image
PixelArrayLen(frames, rows) == IF frames > 1 THEN frames ELSE rows

PixelArrayItem(frames, frame_id) ==
    IF frames > 1 THEN FrameData(frame_id)
    ELSE [kind |-> "row", index |-> frame_id]

\* "for i, frame_data in enumerate(frame_generator)": i restarts at 0, the
\* generator g continues where the previous request left it
RECURSIVE ScanGenerator(_, _, _, _)
ScanGenerator(i, g, frame_id, frames) ==
    IF g >= frames THEN [found |-> FALSE, generator |-> g]
    ELSE IF i = frame_id
         THEN [found |-> TRUE, data |-> FrameData(g), generator |-> g + 1]
         ELSE ScanGenerator(i + 1, g + 1, frame_id, frames)

FxIdle ==
    /\ fpc = "idle"
    /\ fx_path = "none"
    /\ number_of_frames = 0
    /\ frame_rows = 0
    /\ requests = <<>>
    /\ next_request = 0
    /\ frame_generator = 0
    /\ img_array = <<>>
    /\ yielded = <<>>

FxInit ==
    /\ fpc = "called"
    /\ fx_path = "none"
    /\ number_of_frames \in 1..MaxFrames
    /\ frame_rows \in 1..MaxFrameDim
    /\ requests \in UNION {[1..n -> 0..MaxFrames] : n \in 0..MaxRequests}
    /\ next_request = 1
    /\ frame_generator = 0
    /\ img_array = [i \in 0..MaxFrames |-> "unset"]
    /\ yielded = <<>>

\* pixel_array = dcm.pixel_array succeeds
LoadPixelArray ==
    /\ fpc = "called"
    /\ fpc' = "running"
    /\ fx_path' = "primary"
    /\ UNCHANGED <<number_of_frames, frame_rows, requests, next_request,
                   frame_generator, img_array, yielded>>

\* pixel_array = dcm.pixel_array raises MemoryError
MemoryErrorFallback ==
    /\ fpc = "called"
    /\ fpc' = "running"
    /\ fx_path' = "fallback"
    /\ frame_generator' = 0
    /\ UNCHANGED <<number_of_frames, frame_rows, requests, next_request,
                   img_array, yielded>>

PrimaryExtract ==
    /\ fpc = "running"
    /\ fx_path = "primary"
    /\ next_request <= Len(requests)
    /\ LET frame_id == requests[next_request]
       IN  IF frame_id < PixelArrayLen(number_of_frames, frame_rows)
           THEN LET data == PixelArrayItem(number_of_frames, frame_id)
                IN  /\ img_array' = [img_array EXCEPT ![frame_id] = data]
                    /\ yielded' = Append(yielded,
                           [frame |-> frame_id, img_array |-> data])
                    /\ next_request' = next_request + 1
                    /\ fpc' = fpc
           ELSE /\ fpc' = "IndexError"
                /\ UNCHANGED <<img_array, yielded, next_request>>
    /\ UNCHANGED <<fx_path, number_of_frames, frame_rows, requests,
                   frame_generator>>

FallbackExtract ==
    /\ fpc = "running"
    /\ fx_path = "fallback"
    /\ next_request <= Len(requests)
    /\ LET frame_id == requests[next_request]
           scan == ScanGenerator(0, frame_generator, frame_id, number_of_frames)
       IN  /\ frame_generator' = scan.generator
           /\ IF scan.found
              THEN /\ img_array' = [img_array EXCEPT ![frame_id] = scan.data]
                   /\ yielded' = Append(yielded,
                          [frame |-> frame_id, img_array |-> scan.data])
              ELSE UNCHANGED <<img_array, yielded>>
    /\ next_request' = next_request + 1
    /\ UNCHANGED <<fpc, fx_path, number_of_frames, frame_rows, requests>>

ExtractionDone ==
    /\ fpc = "running"
    /\ next_request > Len(requests)
    /\ fpc' = "done"
    /\ UNCHANGED <<fx_path, number_of_frames, frame_rows, requests,
                   next_request, frame_generator, img_array, yielded>>

----------------------------------------------------------------------------
(* MagPairs.is_foreground                                                  *)
(* A tile is the sequence of its RGB pixels.                               *)

MaxTilePixels == 4
BackgroundLevel == 220

TilePixelValues ==
    {<<0, 0, 0>>, <<BackgroundLevel - 1, BackgroundLevel - 1, BackgroundLevel - 1>>,
     <<BackgroundLevel, BackgroundLevel, BackgroundLevel>>,
     <<255, 255, 255>>, <<255, 255, 0>>}

\* tile.convert(mode='L'): the ITU-R 601-2 luma transform as Pillow rounds it
Luminance(px) ==
    (px[1] * 19595 + px[2] * 38470 + px[3] * 7471 + 32768) \div 65536

\* grey.point(lambda x: 0 if x < 220 else 1, mode='F')
ThresholdedInclusive(grey) ==
    [i \in 1..Len(grey) |-> IF grey[i] <= BackgroundLevel THEN 0 ELSE 1]

Thresholded(grey) ==
    [i \in 1..Len(grey) |-> IF grey[i] < BackgroundLevel THEN 0 ELSE 1]

\* np.average(...) <= 0.5, the average being SeqSum / Len
IsForeground(t) ==
    LET grey == [i \in 1..Len(t) |-> Luminance(t[i])]
    IN  2 * SeqSum(Thresholded(grey)) <= Len(grey)

FgIdle ==
    /\ fgpc = "idle"
    /\ tile = <<>>
    /\ foreground = FALSE

FgInit ==
    /\ fgpc = "called"
    /\ tile \in UNION {[1..n -> TilePixelValues] : n \in 1..MaxTilePixels}
    /\ foreground = FALSE

ClassifyForeground ==
    /\ fgpc = "called"
    /\ foreground' = IsForeground(tile)
    /\ fgpc' = "done"
    /\ UNCHANGED tile

----------------------------------------------------------------------------
(* GetEntropy.determine_optimal_clusters, calculate_euclidean,             *)
(* rank_patches_for_diversity and MiniPath.get_representatives             *)
(*                                                                         *)
(* A feature vector is a tuple of integers.  PCA(n_components) keeps the   *)
(* first n_components coordinates: the feature vectors drawn here have     *)
(* their spread in descending order of the coordinates.  A cluster centre  *)
(* is kept exactly, as the sum and the count of the points it averages.    *)
(* KMeans is the library's: a fit is any assignment it can converge to.    *)

RankGridSide == 2
MaxMinK == 3
MaxMaxK == 4

RawFeatures == {<<0, 0, 0>>, <<4, 0, 0>>, <<0, 2, 1>>}

\* "return 2" of rank_patches_for_diversity: a bare number, not a dict
ScalarResult(v) == [scalar |-> v]
IsScalarResult(r) == "scalar" \in DOMAIN r

RECURSIVE Factorial(_)
Factorial(n) == IF n <= 1 THEN 1 ELSE n * Factorial(n - 1)

Distinct(points) == Cardinality({points[i] : i \in 1..Len(points)})

\* pca.fit_transform(scaled_features) with n_components components
PcaTransform(feats, n) == [i \in 1..Len(feats) |-> SubSeq(feats[i], 1, n)]

\* |p - centre|^2 times centre.count^2
SqDistNum(p, centre) ==
    SeqSum([j \in 1..Len(p) |->
        (p[j] * centre.count - centre.sum[j]) * (p[j] * centre.count - centre.sum[j])])

\* whether p is strictly nearer to centre a than to centre b
Nearer(p, a, b) ==
    SqDistNum(p, a) * b.count * b.count < SqDistNum(p, b) * a.count * a.count

ClusterMean(points, labels, c) ==
    [sum |-> [j \in 1..Len(points[1]) |->
                 SeqSum([i \in 1..Len(points) |->
                     IF labels[i] = c THEN points[i][j] ELSE 0])],
     count |-> Cardinality({i \in 1..Len(points) : labels[i] = c})]

\* labels_ is the nearest centre of each point, the lowest index on a tie
IsLabelling(points, k, ctr, labels) ==
    \A i \in 1..Len(points) : \A d \in 0..(k - 1) :
        /\ d < labels[i] => Nearer(points[i], ctr[labels[i]], ctr[d])
        /\ d > labels[i] => ~Nearer(points[i], ctr[d], ctr[labels[i]])

\* The centres a labelling can end with: the mean of a cluster's points, and
\* for a cluster left empty (more clusters than distinct points) a data point
CentreChoices(points, k, labels) ==
    LET used == {labels[i] : i \in 1..Len(points)}
        values == {points[i] : i \in 1..Len(points)}
    IN  {[c \in 0..(k - 1) |->
             IF c \in used THEN ClusterMean(points, labels, c)
             ELSE [sum |-> e[c], count |-> 1]] :
         e \in [(0..(k - 1)) \ used -> values]}

\* KMeans(n_clusters=k, ...).fit(points): the converged fits.  Equal points
\* share a label, and min(k, distinct points) clusters are not empty
KMeansFits(points, k) ==
    LET n == Len(points)
        want == Min(k, Distinct(points))
        labellings ==
            {m \in [1..n -> 0..(k - 1)] :
                /\ Cardinality({m[i] : i \in 1..n}) = want
                /\ \A i \in 1..n : \A j \in (i + 1)..n :
                       points[i] = points[j] => m[i] = m[j]}
    IN  UNION {{[labels |-> l, cluster_centers |-> ctr] :
                   ctr \in {f \in CentreChoices(points, k, l) :
                                IsLabelling(points, k, f, l)}} :
               l \in labellings}

\* kmeans.inertia_ times Factorial(n)^2, n the number of points
Inertia(points, fit) ==
    LET scale == Factorial(Len(points)) * Factorial(Len(points))
    IN  SeqSum([i \in 1..Len(points) |->
            LET centre == fit.cluster_centers[fit.labels[i]]
            IN  SqDistNum(points[i], centre) * (scale \div (centre.count * centre.count))])

\* The candidate cluster counts "range(2, min(self.max_k, n + 1))"
CandidateKs(maxk, unique) == Range(2, Min(maxk, unique + 1), 1)

\* distances.index(max(distances)) + 2.  Every distance has the divisor
\* sqrt(a^2 + 1) and a = (wcss[-1] - wcss[0]) / len(wcss): the distances are
\* compared by |a * x - y + b| times len(wcss)
ElbowK(w) ==
    LET n == Len(w)
        dist == [i \in 1..n |-> Abs((w[n] - w[1]) * i - n * w[i] + n * w[1])]
    IN  (CHOOSE i \in 1..n :
            /\ \A j \in 1..n : dist[j] <= dist[i]
            /\ \A j \in 1..(i - 1) : dist[j] < dist[i]) + 1

\* The value determine_optimal_clusters returns for the inertias w
OptimalClusters(points, w) ==
    IF Distinct(points) <= 2 THEN 2
    ELSE IF Len(w) < 2 THEN 2
    ELSE ElbowK(w)

\* calculate_euclidean: np.argmin(distances, axis=1), a 0-based tile index
\* for every cluster
ClosestSamplesIdx(points, ctr, k) ==
    [c \in 1..k |->
        (CHOOSE i \in 1..Len(points) :
            /\ \A j \in 1..Len(points) :
                   SqDistNum(points[i], ctr[c - 1]) <= SqDistNum(points[j], ctr[c - 1])
            /\ \A j \in 1..(i - 1) :
                   SqDistNum(points[i], ctr[c - 1]) < SqDistNum(points[j], ctr[c - 1])) - 1]

\* list(zip(original_patches, cluster_labels)), then the stable sort by label
RECURSIVE SortByLabel(_, _)
SortByLabel(pairs, k) ==
    IF k < 0 THEN <<>>
    ELSE SortByLabel(pairs, k - 1) \o SelectSeq(pairs, LAMBDA x : x.label = k)

\* silhouette_score(pca_features, cluster_labels) raises ValueError unless
\* the number of labels in use is in 2..(number of samples - 1)
SilhouetteDefined(labels) ==
    LET used == Cardinality({labels[i] : i \in 1..Len(labels)})
    IN  1 < used /\ used < Len(labels)

PatchesWithLabels(patches, labels, k) ==
    SortByLabel([i \in 1..Len(patches) |-> [patch |-> patches[i], label |-> labels[i]]],
                k - 1)

RankIdle ==
    /\ rpc = "idle"
    /\ min_k = 0
    /\ max_k = 0
    /\ subset = FALSE
    /\ features = <<>>
    /\ pca_features = <<>>
    /\ wcss = <<>>
    /\ n_clusters = 0
    /\ results = <<>>
    /\ img_to_use_at_low_mag = <<>>

RankInit ==
    /\ rpc = "called"
    /\ min_k \in 2..MaxMinK
    /\ max_k \in 2..MaxMaxK
    /\ subset \in BOOLEAN
    /\ features \in [1..(RankGridSide * RankGridSide) -> RawFeatures]
    /\ pca_features = <<>>
    /\ wcss = <<>>
    /\ n_clusters = 0
    /\ results = <<>>
    /\ img_to_use_at_low_mag = <<>>

\* The tiles, the threshold and the component count of the call
RankConfigInit ==
    /\ tpc = "extracted"
    /\ patch_size = 1
    /\ img_size = RankGridSide * patch_size
    /\ img_width = MaxImgDim
    /\ img_height = MaxImgDim
    /\ resized_patches = ResizedPatches(img_size, patch_size)
    /\ original_patches =
           OriginalPatches(img_size, patch_size, img_width, img_height)
    /\ cpc = "called"
    /\ explained_variance = (VarUnits * 4) \div 5
    /\ cum_exp_variance = <<>>
    /\ n_components = 0

\* rank_patches_for_diversity, lines 352-359: the component count and the
\* reduced features.  The cumulative variances are local to
\* determine_optimal_components and are not kept
RankReduce ==
    /\ rpc = "called"
    /\ \E r \in VarianceRatios :
           /\ n_components' = OptimalComponents(CumSum(r), explained_variance)
           /\ pca_features' =
                  PcaTransform(features, OptimalComponents(CumSum(r), explained_variance))
    /\ cpc' = "done"
    /\ rpc' = "reduced"
    /\ UNCHANGED <<explained_variance, cum_exp_variance, tileVars, min_k, max_k,
                   subset, features, wcss, n_clusters, results,
                   img_to_use_at_low_mag>>

\* determine_optimal_clusters(self, pca_features)
DetermineOptimalClusters ==
    /\ rpc = "reduced"
    /\ LET ks == IF Distinct(pca_features) <= 2 THEN <<>>
                 ELSE CandidateKs(max_k, Distinct(pca_features))
           inertias == [i \in 1..Len(ks) |->
                           {Inertia(pca_features, fit) :
                               fit \in KMeansFits(pca_features, ks[i])}]
       IN  \E w \in [1..Len(ks) -> UNION {inertias[i] : i \in 1..Len(ks)}] :
               /\ \A i \in 1..Len(ks) : w[i] \in inertias[i]
               /\ wcss' = w
               /\ n_clusters' = OptimalClusters(pca_features, w)
    /\ rpc' = "counted"
    /\ UNCHANGED <<compVars, tileVars, min_k, max_k, subset, features,
                   pca_features, results, img_to_use_at_low_mag>>

\* rank_patches_for_diversity, lines 363-389.  cluster_labels and
\* cluster_centers are kmeans.labels_ and kmeans.cluster_centers_ of the
\* final fit, kept beside the entries of the returned dict
RankCluster ==
    /\ rpc = "counted"
    /\ IF Distinct(features) = 1
       THEN /\ results' = ScalarResult(2)
            /\ rpc' = "returned"
            /\ UNCHANGED n_clusters
       ELSE LET k == IF n_clusters < min_k THEN min_k ELSE n_clusters
            IN  /\ n_clusters' = k
                /\ IF k > Len(pca_features)
                   THEN /\ results' = <<>>
                        /\ rpc' = "ValueError"
                   ELSE \E fit \in KMeansFits(pca_features, k) :
                             IF SilhouetteDefined(fit.labels)
                             THEN
                               /\ rpc' = "returned"
                               /\ results' =
                                   [patches_with_labels |->
                                        PatchesWithLabels(original_patches, fit.labels, k),
                                    n_clusters |-> k,
                                    n_components |-> n_components,
                                    closest_samples_idx |->
                                        ClosestSamplesIdx(pca_features,
                                                          fit.cluster_centers, k),
                                    cluster_labels |-> fit.labels,
                                    cluster_centers |-> fit.cluster_centers]
                             ELSE /\ results' = <<>>
                                  /\ rpc' = "ValueError"
    /\ UNCHANGED <<compVars, tileVars, min_k, max_k, subset, features,
                   pca_features, wcss, img_to_use_at_low_mag>>

\* MiniPath.get_representatives, lines 80-91
GetRepresentatives ==
    /\ rpc = "returned"
    /\ IF IsScalarResult(results)
       THEN /\ rpc' = "TypeError"
            /\ UNCHANGED img_to_use_at_low_mag
       ELSE /\ img_to_use_at_low_mag' =
                   IF subset
                   THEN [c \in 1..Len(results.closest_samples_idx) |->
                            results.patches_with_labels[results.closest_samples_idx[c] + 1]]
                   ELSE results.patches_with_labels
            /\ rpc' = "stored"
    /\ UNCHANGED <<compVars, tileVars, min_k, max_k, subset, features,
                   pca_features, wcss, n_clusters, results>>

----------------------------------------------------------------------------
(* GetEntropy.determine_optimal_clusters, lines 294-313: the elbow of the  *)
(* recorded inertias, studied for every inertia sequence.  An inertia is a *)
(* non-negative number; the distances are homogeneous in the inertias, so  *)
(* integer inertias stand for every common scale.                          *)

MaxCandidates == 4
MaxInertia == 5

\* The value returned once the loop has filled wcss with w
ElbowFromWcss(w) == IF Len(w) < 2 THEN 2 ELSE ElbowK(w)

ElbowInit ==
    /\ rpc = "inertias"
    /\ min_k = 0
    /\ max_k = 0
    /\ subset = FALSE
    /\ features = <<>>
    /\ pca_features = <<>>
    /\ wcss \in UNION {[1..n -> 0..MaxInertia] : n \in 0..MaxCandidates}
    /\ n_clusters = 0
    /\ results = <<>>
    /\ img_to_use_at_low_mag = <<>>

ElbowSelect ==
    /\ rpc = "inertias"
    /\ n_clusters' = ElbowFromWcss(wcss)
    /\ rpc' = "elbow"
    /\ UNCHANGED <<min_k, max_k, subset, features, pca_features, wcss,
                   results, img_to_use_at_low_mag>>

----------------------------------------------------------------------------
(* get_single_dcm_img                                                      *)
(* dcm is the image of the grid variables; num_frames is the frame count   *)
(* of its pixel_array, a colour image: 3 dimensions for a single frame, 4  *)
(* for several.  grid_array maps the grid position <<row, col>> to the     *)
(* data copied into its block.                                             *)

MaxNumFrames == 4

AsmIdle ==
    /\ apc = "idle"
    /\ num_frames = 0
    /\ grid_array = <<>>

AsmInit ==
    /\ apc = "called"
    /\ num_frames \in 1..MaxNumFrames
    /\ grid_array = <<>>

\* "grid_array[...] = frames[frame_index]" for every block of the grid;
\* frames[frame_index] is a frame of a 4-dimensional array and a pixel row
\* of a 3-dimensional one
GridArray(d, frames) ==
    LET g == ParseDcmInfo(d)
    IN  [pos \in (0..(g.grid_rows - 1)) \X (0..(g.grid_cols - 1)) |->
            PixelArrayItem(frames, pos[1] * g.grid_cols + pos[2])]

GetSingleDcmImg ==
    /\ apc = "called"
    /\ LET g == ParseDcmInfo(dcm)
       IN  IF g.grid_rows * g.grid_cols # num_frames
           THEN /\ apc' = "ValueError"
                /\ UNCHANGED grid_array
           ELSE /\ grid_array' = GridArray(dcm, num_frames)
                /\ apc' = "done"
    /\ UNCHANGED num_frames

----------------------------------------------------------------------------
(* MiniPath.get_representatives and MiniPath.get_high_res as calls on one  *)
(* instance.  The attributes are low_res_dcm, img_to_use_at_low_mag and    *)
(* high_mag_dcm; None is "None" for a dataset and <<>> for the tile list   *)
(* (a stored tile list is never empty: there are at least 2 clusters and   *)
(* at least one tile).  calls is the trace of the calls made, each with    *)
(* the attributes before and after it.                                     *)

MaxCalls == 4
MaxStoredTiles == 3

Datasets == {"lowA", "lowB"}

\* MagPairs.get_local_dcm_pair: the high-magnification image of the series
HighMagPair(d) == IF d = "lowA" THEN "highA" ELSE "highB"

\* The tile lists get_representatives can store
StoredTileLists ==
    LET all == OriginalPatches(MaxStoredTiles, 1, MaxImgDim, MaxImgDim)
    IN  {[i \in 1..n |-> [patch |-> all[i], label |-> (i - 1) % 2]] :
            n \in 2..MaxStoredTiles}

Attributes == <<low_res_dcm, img_to_use_at_low_mag, high_mag_dcm>>

\* "if self.low_res_dcm is None or self.img_to_use_at_low_mag is None"
NotInitializedNever(l, i) == FALSE

NotInitialized(l, i) == l = "None" \/ i = <<>>

PipeIdle ==
    /\ low_res_dcm = "None"
    /\ high_mag_dcm = "None"
    /\ calls = <<>>

\* MiniPath.__init__, lines 52-54; the configuration of the instance
\* takes no part in the calls' effect on the attributes
PipeInit ==
    /\ low_res_dcm = "None"
    /\ high_mag_dcm = "None"
    /\ calls = <<>>
    /\ RankIdle

\* get_representatives raises before line 90: the download, the grid
\* assembly, the ranking or the indexing of its result fails
RepresentativesFails ==
    /\ Len(calls) < MaxCalls
    /\ \E url \in Datasets :
           calls' = Append(calls,
               [op |-> "get_representatives", arg |-> url, outcome |-> "error",
                before |-> Attributes, after |-> Attributes])
    /\ UNCHANGED <<low_res_dcm, high_mag_dcm, img_to_use_at_low_mag>>

\* get_representatives reaches lines 90-91
RepresentativesStores ==
    /\ Len(calls) < MaxCalls
    /\ \E url \in Datasets, tiles \in StoredTileLists :
           /\ img_to_use_at_low_mag' = tiles
           /\ low_res_dcm' = url
           /\ calls' = Append(calls,
                  [op |-> "get_representatives", arg |-> url,
                   outcome |-> "stored",
                   before |-> Attributes,
                   after |-> <<url, tiles, high_mag_dcm>>])
    /\ UNCHANGED high_mag_dcm

\* get_high_res, lines 101-102
HighResNotInitialized ==
    /\ Len(calls) < MaxCalls
    /\ NotInitialized(low_res_dcm, img_to_use_at_low_mag)
    /\ calls' = Append(calls,
           [op |-> "get_high_res", arg |-> "None", outcome |-> "ValueError",
            before |-> Attributes, after |-> Attributes])
    /\ UNCHANGED <<low_res_dcm, high_mag_dcm, img_to_use_at_low_mag>>

\* get_high_res, line 105: the construction of MagPairs raises
HighResMagPairsFails ==
    /\ Len(calls) < MaxCalls
    /\ ~NotInitialized(low_res_dcm, img_to_use_at_low_mag)
    /\ calls' = Append(calls,
           [op |-> "get_high_res", arg |-> "None", outcome |-> "MagPairsError",
            before |-> Attributes, after |-> Attributes])
    /\ UNCHANGED <<low_res_dcm, high_mag_dcm, img_to_use_at_low_mag>>

\* get_high_res, lines 105-113
HighResReturns ==
    /\ Len(calls) < MaxCalls
    /\ ~NotInitialized(low_res_dcm, img_to_use_at_low_mag)
    /\ high_mag_dcm' = HighMagPair(low_res_dcm)
    /\ calls' = Append(calls,
           [op |-> "get_high_res", arg |-> "None", outcome |-> "frames",
            before |-> Attributes,
            after |-> <<low_res_dcm, img_to_use_at_low_mag,
                        HighMagPair(low_res_dcm)>>])
    /\ UNCHANGED <<low_res_dcm, img_to_use_at_low_mag>>

----------------------------------------------------------------------------
(* MagPairs.__init__, MagPairs.get_minmax                                  *)
(* The constructor's arguments are the tile list img_to_use_at_low_mag and *)
(* all_frames; dcm is the paired high-magnification image, an image of     *)
(* several frames whose frame count is the size of its grid, and           *)
(* frame_tiles the pixels of each of its frames.  A pixel spacing is a     *)
(* whole number of length units.  The frame dicts of fd are shared by      *)
(* reference: high_mag_frame_list and the extracted frames name them by    *)
(* frame id, and img_array of the extraction holds the img_array entry of  *)
(* each.                                                                   *)

MaxSpacing == 2
MaxMagTiles == 2

PixelSpacings == (0 - 1)..MaxSpacing

\* int(a / b) for b # 0: the quotient truncated towards zero
IntQuotient(a, b) ==
    IF (a >= 0) = (b > 0) THEN Abs(a) \div Abs(b)
    ELSE 0 - (Abs(a) \div Abs(b))

\* The high-magnification images of the constructor: square frames, in a
\* grid of 2 to MaxNumFrames frames
MagDcms ==
    {d \in [Rows : 1..MaxFrameDim, Columns : 1..MaxFrameDim,
             TotalPixelMatrixRows : 1..MaxMatrixDim,
             TotalPixelMatrixColumns : 1..MaxMatrixDim] :
        /\ d.Rows = d.Columns
        /\ ParseDcmInfo(d).grid_rows * ParseDcmInfo(d).grid_cols > 1
        /\ ParseDcmInfo(d).grid_rows * ParseDcmInfo(d).grid_cols <= MaxNumFrames}

\* The pixels of the frames 0 .. n - 1, each a dark frame or a bright one:
\* all dark, all bright, or dark and bright in turn
FrameTiles(n) ==
    LET dark == <<<<0, 0, 0>>>>
        bright == <<<<255, 255, 255>>>>
    IN  {[i \in 0..(n - 1) |-> dark], [i \in 0..(n - 1) |-> bright],
         [i \in 0..(n - 1) |-> IF i % 2 = 0 THEN dark ELSE bright],
         [i \in 0..(n - 1) |-> IF i % 2 = 0 THEN bright ELSE dark]}

\* The tile lists passed to the constructor: tiles of a low-magnification
\* image, each with its label
MagTileLists ==
    LET all == OriginalPatches(2, 1, 2, 2)
        picks == {[patch |-> all[1], label |-> 0], [patch |-> all[4], label |-> 1]}
    IN  UNION {[1..n -> picks] : n \in 1..MaxMagTiles}

\* get_minmax: i[0][0].size is the size of the cropped tile, i[0][1] its
\* origin
GetMinMaxUnscaled(tiles, factor) ==
    [t \in 1..Len(tiles) |->
        LET x_range == tiles[t].patch.box[3] - tiles[t].patch.box[1]
            y_range == tiles[t].patch.box[4] - tiles[t].patch.box[2]
            raw_ranges == tiles[t].patch.coord
        IN  [x_min |-> raw_ranges[1],
             x_max |-> raw_ranges[1] + x_range,
             y_min |-> raw_ranges[2],
             y_max |-> raw_ranges[2] + y_range,
             x_range |-> x_range]]

GetMinMax(tiles, factor) ==
    [t \in 1..Len(tiles) |->
        LET x_range == tiles[t].patch.box[3] - tiles[t].patch.box[1]
            y_range == tiles[t].patch.box[4] - tiles[t].patch.box[2]
            raw_ranges == tiles[t].patch.coord
        IN  [x_min |-> raw_ranges[1] * factor,
             x_max |-> (raw_ranges[1] + x_range) * factor,
             y_min |-> raw_ranges[2] * factor,
             y_max |-> (raw_ranges[2] + y_range) * factor,
             x_range |-> x_range]]

\* The frame ids of high_mag_frame_list in the order the nested loops of
\* frame_extraction visit them
RECURSIVE FrameIds(_)
FrameIds(lists) ==
    IF lists = <<>> THEN <<>>
    ELSE [k \in 1..Len(Head(lists)) |-> Head(lists)[k].frame]
         \o FrameIds(Tail(lists))

\* The pixels is_foreground is given for the data of a yielded frame
DataPixels(data, tiles) == tiles[data.index]

MagIdle ==
    /\ mpc = "idle"
    /\ pixel_spacing_at_low_mag = 0
    /\ pixel_spacing_at_high_mag = 0
    /\ scaling_factor = 0
    /\ minmax_list = <<>>
    /\ high_mag_frame_list = <<>>
    /\ frame_tiles = <<>>
    /\ high_mag_frames = <<>>
    /\ clean_high_mag_frames = <<>>

MagInit ==
    /\ mpc = "called"
    /\ pixel_spacing_at_low_mag \in PixelSpacings
    /\ pixel_spacing_at_high_mag \in PixelSpacings
    /\ scaling_factor = 0
    /\ minmax_list = <<>>
    /\ high_mag_frame_list = <<>>
    /\ high_mag_frames = <<>>
    /\ clean_high_mag_frames = <<>>
    \* the constructor's arguments
    /\ img_to_use_at_low_mag \in MagTileLists
    /\ all_frames \in BOOLEAN
    /\ rpc = "idle"
    /\ min_k = 0
    /\ max_k = 0
    /\ subset = FALSE
    /\ features = <<>>
    /\ pca_features = <<>>
    /\ wcss = <<>>
    /\ n_clusters = 0
    /\ results = <<>>
    \* the high-magnification image
    /\ gpc = "called"
    /\ dcm \in MagDcms
    /\ fd = <<>>
    /\ query = <<>>
    /\ intersecting_frames = <<>>
    /\ frame_tiles \in
           FrameTiles(ParseDcmInfo(dcm).grid_rows * ParseDcmInfo(dcm).grid_cols)
    /\ FxIdle

\* lines 405-407
MagScaling ==
    /\ mpc = "called"
    /\ IF pixel_spacing_at_high_mag = 0
       THEN /\ mpc' = "ZeroDivisionError"
            /\ UNCHANGED scaling_factor
       ELSE /\ scaling_factor' =
                   IntQuotient(pixel_spacing_at_low_mag, pixel_spacing_at_high_mag)
            /\ mpc' = "scaled"
    /\ UNCHANGED <<pixel_spacing_at_low_mag, pixel_spacing_at_high_mag,
                   minmax_list, high_mag_frame_list, frame_tiles,
                   high_mag_frames, clean_high_mag_frames>>
    /\ UNCHANGED <<gridVars, fxVars, rankVars>>

\* line 408
MagGetFrameDict ==
    /\ mpc = "scaled"
    /\ GetFrameDict
    /\ mpc' = "grid"
    /\ UNCHANGED <<pixel_spacing_at_low_mag, pixel_spacing_at_high_mag,
                   scaling_factor, minmax_list, high_mag_frame_list,
                   frame_tiles, high_mag_frames, clean_high_mag_frames>>
    /\ UNCHANGED <<fxVars, rankVars>>

\* line 409
MagGetMinMax ==
    /\ mpc = "grid"
    /\ minmax_list' = GetMinMax(img_to_use_at_low_mag, scaling_factor)
    /\ mpc' = "mapped"
    /\ UNCHANGED <<pixel_spacing_at_low_mag, pixel_spacing_at_high_mag,
                   scaling_factor, high_mag_frame_list, frame_tiles,
                   high_mag_frames, clean_high_mag_frames>>
    /\ UNCHANGED <<gridVars, fxVars, rankVars>>

\* lines 410-413: the frame lists, and the call of frame_extraction on them
MagFindFrames ==
    /\ mpc = "mapped"
    /\ LET lists == [t \in 1..Len(minmax_list) |->
                        IntersectingFrames(fd, minmax_list[t].x_min,
                            minmax_list[t].x_max, minmax_list[t].y_min,
                            minmax_list[t].y_max, all_frames)]
       IN  /\ high_mag_frame_list' = lists
           /\ requests' = FrameIds(lists)
    /\ fpc' = "called"
    /\ fx_path' = "none"
    /\ number_of_frames' = Len(fd)
    /\ frame_rows' = dcm.Rows
    /\ next_request' = 1
    /\ frame_generator' = 0
    /\ img_array' = [i \in 0..(Len(fd) - 1) |-> "unset"]
    /\ yielded' = <<>>
    /\ mpc' = "extracting"
    /\ UNCHANGED <<pixel_spacing_at_low_mag, pixel_spacing_at_high_mag,
                   scaling_factor, minmax_list, frame_tiles,
                   high_mag_frames, clean_high_mag_frames>>
    /\ UNCHANGED <<gridVars, rankVars>>

\* lines 413-414: list(...) holds the yielded dicts themselves, so each
\* entry shows the img_array its dict has at the end of the extraction
MagFilter ==
    /\ mpc = "extracting"
    /\ fpc = "done"
    /\ LET frames == [k \in 1..Len(yielded) |->
                         [frame |-> yielded[k].frame,
                          img_array |-> img_array[yielded[k].frame]]]
       IN  /\ high_mag_frames' = frames
           /\ clean_high_mag_frames' =
                  SelectSeq(frames,
                      LAMBDA f : IsForeground(DataPixels(f.img_array, frame_tiles)))
    /\ mpc' = "done"
    /\ UNCHANGED <<pixel_spacing_at_low_mag, pixel_spacing_at_high_mag,
                   scaling_factor, minmax_list, high_mag_frame_list,
                   frame_tiles>>
    /\ UNCHANGED <<gridVars, fxVars, rankVars>>

----------------------------------------------------------------------------
(* Specifications *)

IdleExcept(G) ==
    /\ IF "comp" \in G THEN TRUE ELSE CompIdle
    /\ IF "tile" \in G THEN TRUE ELSE TileIdle
    /\ IF "ent" \in G THEN TRUE ELSE EntIdle
    /\ IF "grid" \in G THEN TRUE ELSE GridIdle
    /\ IF "fx" \in G THEN TRUE ELSE FxIdle
    /\ IF "fg" \in G THEN TRUE ELSE FgIdle
    /\ IF "rank" \in G THEN TRUE ELSE RankIdle
    /\ IF "asm" \in G THEN TRUE ELSE AsmIdle
    /\ IF "pipe" \in G THEN TRUE ELSE PipeIdle
    /\ IF "mag" \in G THEN TRUE ELSE MagIdle

UnchangedExcept(G) ==
    /\ IF "comp" \in G THEN TRUE ELSE UNCHANGED compVars
    /\ IF "tile" \in G THEN TRUE ELSE UNCHANGED tileVars
    /\ IF "ent" \in G THEN TRUE ELSE UNCHANGED entVars
    /\ IF "grid" \in G THEN TRUE ELSE UNCHANGED gridVars
    /\ IF "fx" \in G THEN TRUE ELSE UNCHANGED fxVars
    /\ IF "fg" \in G THEN TRUE ELSE UNCHANGED fgVars
    /\ IF "rank" \in G THEN TRUE ELSE UNCHANGED rankVars
    /\ IF "asm" \in G THEN TRUE ELSE UNCHANGED asmVars
    /\ IF "pipe" \in G THEN TRUE ELSE UNCHANGED pipeVars
    /\ IF "mag" \in G THEN TRUE ELSE UNCHANGED magVars

InitComponents == CompInit /\ IdleExcept({"comp"})
NextComponents == DetermineOptimalComponents /\ UnchangedExcept({"comp"})
SpecComponents == InitComponents /\ [][NextComponents]_vars

InitTiles == TileInit /\ IdleExcept({"tile"})
NextTiles == ExtractPatches /\ UnchangedExcept({"tile"})
SpecTiles == InitTiles /\ [][NextTiles]_vars

\* The configured img_size of the GetEntropy instance whose tile is examined
EntConfigInit ==
    /\ tpc = "idle"
    /\ img_size \in {HistBins \div 2, HistBins, HistBins * 2}
    /\ patch_size = 0
    /\ img_width = 0
    /\ img_height = 0
    /\ resized_patches = <<>>
    /\ original_patches = <<>>

InitEntropy == EntInit /\ EntConfigInit /\ IdleExcept({"ent", "tile"})
NextEntropy == ExtractEntropyFeatureVector /\ UnchangedExcept({"ent"})
SpecEntropy == InitEntropy /\ [][NextEntropy]_vars

InitFrames == GridInit /\ IdleExcept({"grid"})
NextFrames ==
    \/ GetFrameDict /\ UnchangedExcept({"grid"})
    \/ FindIntersectingFrames /\ UnchangedExcept({"grid"})
SpecFrames == InitFrames /\ [][NextFrames]_vars

InitExtraction == FxInit /\ IdleExcept({"fx"})
NextExtraction ==
    \/ LoadPixelArray /\ UnchangedExcept({"fx"})
    \/ MemoryErrorFallback /\ UnchangedExcept({"fx"})
    \/ PrimaryExtract /\ UnchangedExcept({"fx"})
    \/ FallbackExtract /\ UnchangedExcept({"fx"})
    \/ ExtractionDone /\ UnchangedExcept({"fx"})
SpecExtraction == InitExtraction /\ [][NextExtraction]_vars

InitRank == RankInit /\ RankConfigInit /\ IdleExcept({"rank", "tile", "comp"})
NextRank ==
    \/ RankReduce /\ UnchangedExcept({"rank", "tile", "comp"})
    \/ DetermineOptimalClusters /\ UnchangedExcept({"rank", "tile", "comp"})
    \/ RankCluster /\ UnchangedExcept({"rank", "tile", "comp"})
    \/ GetRepresentatives /\ UnchangedExcept({"rank", "tile", "comp"})
SpecRank == InitRank /\ [][NextRank]_vars

InitElbow == ElbowInit /\ IdleExcept({"rank"})
NextElbow == ElbowSelect /\ UnchangedExcept({"rank"})
SpecElbow == InitElbow /\ [][NextElbow]_vars

InitAssemble == GridInit /\ AsmInit /\ IdleExcept({"grid", "asm"})
NextAssemble ==
    \/ GetSingleDcmImg /\ UNCHANGED gridVars /\ UnchangedExcept({"grid", "asm"})
    \/ GetFrameDict /\ UNCHANGED asmVars /\ UnchangedExcept({"grid", "asm"})
SpecAssemble == InitAssemble /\ [][NextAssemble]_vars

PipeRankUnchanged ==
    UNCHANGED <<rpc, min_k, max_k, subset, features, pca_features, wcss,
                n_clusters, results>>

InitPipeline == PipeInit /\ IdleExcept({"pipe", "rank"})
NextPipeline ==
    \/ RepresentativesFails /\ PipeRankUnchanged /\ UnchangedExcept({"pipe", "rank"})
    \/ RepresentativesStores /\ PipeRankUnchanged /\ UnchangedExcept({"pipe", "rank"})
    \/ HighResNotInitialized /\ PipeRankUnchanged /\ UnchangedExcept({"pipe", "rank"})
    \/ HighResMagPairsFails /\ PipeRankUnchanged /\ UnchangedExcept({"pipe", "rank"})
    \/ HighResReturns /\ PipeRankUnchanged /\ UnchangedExcept({"pipe", "rank"})
SpecPipeline == InitPipeline /\ [][NextPipeline]_vars

MagGroups == {"mag", "grid", "fx", "rank"}

InitMagPairs == MagInit /\ IdleExcept(MagGroups)
NextMagPairs ==
    \/ MagScaling /\ UnchangedExcept(MagGroups)
    \/ MagGetFrameDict /\ UnchangedExcept(MagGroups)
    \/ MagGetMinMax /\ UnchangedExcept(MagGroups)
    \/ MagFindFrames /\ UnchangedExcept(MagGroups)
    \/ LoadPixelArray /\ UNCHANGED <<magVars, gridVars, rankVars>>
           /\ UnchangedExcept(MagGroups)
    \/ MemoryErrorFallback /\ UNCHANGED <<magVars, gridVars, rankVars>>
           /\ UnchangedExcept(MagGroups)
    \/ PrimaryExtract /\ UNCHANGED <<magVars, gridVars, rankVars>>
           /\ UnchangedExcept(MagGroups)
    \/ FallbackExtract /\ UNCHANGED <<magVars, gridVars, rankVars>>
           /\ UnchangedExcept(MagGroups)
    \/ ExtractionDone /\ UNCHANGED <<magVars, gridVars, rankVars>>
           /\ UnchangedExcept(MagGroups)
    \/ MagFilter /\ UnchangedExcept(MagGroups)
SpecMagPairs == InitMagPairs /\ [][NextMagPairs]_vars

InitForeground == FgInit /\ IdleExcept({"fg"})
NextForeground == ClassifyForeground /\ UnchangedExcept({"fg"})
SpecForeground == InitForeground /\ [][NextForeground]_vars

----------------------------------------------------------------------------
(* C10: for every non-decreasing cumulative explained-variance sequence and *)
(* every threshold, determine_optimal_components returns n with            *)
(* 2 <= n <= dimensionality and the cumulative variance at n strictly      *)
(* above the threshold (the claim as stated).                              *)
C10_Original ==
    cpc = "done" =>
        /\ 2 <= n_components
        /\ n_components <= Len(cum_exp_variance)
        /\ cum_exp_variance[n_components] > explained_variance

(* C10 as amended: when the total cumulative variance is strictly above    *)
(* the threshold, the returned n is in [2, dimensionality], the cumulative *)
(* variance at n is strictly above the threshold, and n is the smallest    *)
(* such count that is at least 2; when no count is above the threshold     *)
(* the function returns 2.                                                 *)
C10_Amended ==
    cpc = "done" =>
        LET d == Len(cum_exp_variance)
        IN  /\ cum_exp_variance[d] > explained_variance =>
                /\ 2 <= n_components
                /\ n_components <= d
                /\ cum_exp_variance[n_components] > explained_variance
                /\ n_components > 2 =>
                       cum_exp_variance[n_components - 1] <= explained_variance
            /\ (\A i \in 1..d : cum_exp_variance[i] <= explained_variance) =>
                   n_components = 2

C10_Witness ==
    /\ cpc = "done"
    /\ Len(cum_exp_variance) = FeatureDim
    /\ cum_exp_variance[2] <= explained_variance
    /\ cum_exp_variance[FeatureDim] > explained_variance
    /\ n_components = FeatureDim

(* C5: for img_size evenly divisible by patch_size the working image is    *)
(* partitioned into (img_size / patch_size)^2 pairwise non-overlapping     *)
(* tiles covering it, enumerated row-major: the first row of the grid left *)
(* to right, then the next row (the claim as stated).                      *)
TilesPartition ==
    /\ Len(resized_patches) = (img_size \div patch_size) * (img_size \div patch_size)
    /\ \A k \in 1..Len(resized_patches) :
           /\ resized_patches[k].box[3] <= img_size
           /\ resized_patches[k].box[4] <= img_size
    /\ \A px \in 0..(img_size - 1) : \A py \in 0..(img_size - 1) :
           Cardinality({k \in 1..Len(resized_patches) :
               /\ resized_patches[k].box[1] <= px /\ px < resized_patches[k].box[3]
               /\ resized_patches[k].box[2] <= py /\ py < resized_patches[k].box[4]}) = 1

C5_Original ==
    (tpc = "extracted" /\ img_size % patch_size = 0) =>
        /\ TilesPartition
        /\ \A k \in 1..Len(resized_patches) : \A l \in (k + 1)..Len(resized_patches) :
               \/ resized_patches[k].box[2] < resized_patches[l].box[2]
               \/ /\ resized_patches[k].box[2] = resized_patches[l].box[2]
                  /\ resized_patches[k].box[1] < resized_patches[l].box[1]

(* C5 as amended: the same partition, enumerated column-major: the tiles   *)
(* of the first column (x = 0) top to bottom, then the next column.        *)
C5_Amended ==
    (tpc = "extracted" /\ img_size % patch_size = 0) =>
        /\ TilesPartition
        /\ \A k \in 1..Len(resized_patches) : \A l \in (k + 1)..Len(resized_patches) :
               \/ resized_patches[k].box[1] < resized_patches[l].box[1]
               \/ /\ resized_patches[k].box[1] = resized_patches[l].box[1]
                  /\ resized_patches[k].box[2] < resized_patches[l].box[2]

C5_Witness ==
    /\ tpc = "extracted"
    /\ img_size % patch_size = 0
    /\ patch_size >= 2
    /\ Len(resized_patches) = 9
    /\ resized_patches[2].coord = <<0, patch_size>>

(* C6: for every configured img_size and every 3-channel tile the three    *)
(* histograms fed to the entropy function are the complete 256-bin         *)
(* histograms of the red, green and blue channels, and the feature vector  *)
(* is the 3 per-channel entropies; a tile that is not RGB is rejected.     *)
ChannelHistogram(pixels, band) ==
    [v \in 1..HistBins |->
        Cardinality({i \in 1..Len(pixels) : pixels[i][band] = v - 1})]

C6_Claim ==
    epc # "called" =>
        IF patch_mode # "RGB"
        THEN epc = "ValueError"
        ELSE /\ epc = "done"
             /\ histogram_r = ChannelHistogram(patch_pixels, 1)
             /\ histogram_g = ChannelHistogram(patch_pixels, 2)
             /\ histogram_b = ChannelHistogram(patch_pixels, 3)
             /\ feature_vector =
                    <<EntropyFromHistogram(ChannelHistogram(patch_pixels, 1)),
                      EntropyFromHistogram(ChannelHistogram(patch_pixels, 2)),
                      EntropyFromHistogram(ChannelHistogram(patch_pixels, 3))>>

(* C8: get_frame_dict returns ceil(total rows / rows) * ceil(total columns *)
(* / columns) descriptors whose frame ids are exactly 0, 1, 2, ... with no *)
(* gap or repeat, assigned row-major, and the descriptor at grid position  *)
(* (r, c) has row_min = r * rows and col_min = c * columns.                *)
GridCount(total, size) ==
    CHOOSE g \in 0..total : g * size >= total /\ (g - 1) * size < total

C8_FrameGrid ==
    gpc \in {"grid", "found"} =>
        LET gr == GridCount(dcm.TotalPixelMatrixRows, dcm.Rows)
            gc == GridCount(dcm.TotalPixelMatrixColumns, dcm.Columns)
        IN  /\ Len(fd) = gr * gc
            /\ {fd[k].frame : k \in 1..Len(fd)} = 0..(gr * gc - 1)
            /\ \A k \in 1..Len(fd) : \A l \in 1..Len(fd) :
                   fd[k].frame = fd[l].frame => k = l
            /\ \A r \in 0..(gr - 1) : \A c \in 0..(gc - 1) :
                   \E k \in 1..Len(fd) :
                       /\ fd[k].frame = r * gc + c
                       /\ fd[k].row_min = r * dcm.Rows
                       /\ fd[k].col_min = c * dcm.Columns

C8_Witness ==
    /\ gpc = "grid"
    /\ dcm.TotalPixelMatrixRows % dcm.Rows # 0
    /\ dcm.TotalPixelMatrixColumns > dcm.Columns
    /\ Len(fd) >= 4
    /\ fd[2].col_min = dcm.Columns
    /\ fd[2].row_min = 0

(* C7: with all_frames false find_intersecting_frames returns, in frame-   *)
(* grid order, exactly the frames whose box overlaps the query box under   *)
(* closed-interval comparison on both axes (a frame sharing only a         *)
(* boundary edge or corner is included, a frame disjoint on either axis is *)
(* excluded); with all_frames true it returns every frame of the grid.     *)
ClosedOverlap(f, q) ==
    /\ (f.col_min..f.col_max) \cap (q.x_min..q.x_max) # {}
    /\ (f.row_min..f.row_max) \cap (q.y_min..q.y_max) # {}

C7_Intersecting ==
    gpc = "found" =>
        IF all_frames
        THEN intersecting_frames = fd
        ELSE /\ \A k \in 1..Len(fd) :
                    ClosedOverlap(fd[k], query) <=>
                        \E i \in 1..Len(intersecting_frames) :
                            intersecting_frames[i] = fd[k]
             /\ \A i \in 1..Len(intersecting_frames) :
                    /\ \E k \in 1..Len(fd) : intersecting_frames[i] = fd[k]
                    /\ \A j \in (i + 1)..Len(intersecting_frames) :
                           intersecting_frames[i].frame < intersecting_frames[j].frame

C7_Witness ==
    /\ gpc = "found"
    /\ ~all_frames
    /\ \E i \in 1..Len(intersecting_frames) :
           /\ intersecting_frames[i].col_max = query.x_min
           /\ intersecting_frames[i].row_max = query.y_min
    /\ \E k \in 1..Len(fd) :
           /\ fd[k].col_max < query.x_min
           /\ \A i \in 1..Len(intersecting_frames) : intersecting_frames[i] # fd[k]

(* C2: on the streaming fallback path, for every request sequence whose    *)
(* frame ids are non-decreasing and all exist in the encoded stream, the   *)
(* extraction terminates and yields exactly one frame per requested id, in *)
(* request order, each carrying the id that was requested.                 *)
C2_FallbackYieldsAll ==
    (/\ fpc = "done"
     /\ fx_path = "fallback"
     /\ \A k \in 1..Len(requests) : requests[k] < number_of_frames
     /\ \A k \in 1..(Len(requests) - 1) : requests[k] <= requests[k + 1]) =>
        /\ Len(yielded) = Len(requests)
        /\ \A k \in 1..Len(requests) : yielded[k].frame = requests[k]

(* C3: if a requested frame id has no encoded unit, frame_extraction fails *)
(* for that id with an error (the id is never silently skipped), and the   *)
(* frames yielded before the failing id are those requested before it.     *)
C3_AbsentFrameFails ==
    /\ \A k \in 1..Len(requests) :
           next_request > k => requests[k] < number_of_frames
    /\ fpc = "IndexError" =>
           /\ requests[next_request] >= number_of_frames
           /\ Len(yielded) = next_request - 1
           /\ \A k \in 1..Len(yielded) : yielded[k].frame = requests[k]

(* C9: is_foreground returns true exactly when the number of pixels with   *)
(* luminance >= 220 is at most half of the tile's pixels: an all-255 tile  *)
(* is background, an all-0 tile is foreground, a tile with exactly half of *)
(* its pixels at or above 220 is foreground; a pixel at exactly 220 counts *)
(* as background and one at 219 as foreground.                             *)
BackgroundPixels(t) ==
    {i \in 1..Len(t) : Luminance(t[i]) >= 220}

C9_Foreground ==
    fgpc = "done" =>
        /\ foreground <=> (2 * Cardinality(BackgroundPixels(tile)) <= Len(tile))
        /\ (\A i \in 1..Len(tile) : tile[i] = <<255, 255, 255>>) => ~foreground
        /\ (\A i \in 1..Len(tile) : tile[i] = <<0, 0, 0>>) => foreground
        /\ (\A i \in 1..Len(tile) : tile[i] = <<220, 220, 220>>) => ~foreground
        /\ (\A i \in 1..Len(tile) : tile[i] = <<219, 219, 219>>) => foreground
        /\ 2 * Cardinality(BackgroundPixels(tile)) = Len(tile) => foreground

C9_Witness ==
    /\ fgpc = "done"
    /\ Len(tile) = 4
    /\ tile[1] = <<220, 220, 220>>
    /\ tile[2] = <<219, 219, 219>>
    /\ tile[3] = <<255, 255, 0>>
    /\ tile[4] = <<0, 0, 0>>
    /\ foreground

(* C1: for every call of rank_patches_for_diversity that returns a         *)
(* clustering result, the resolved cluster count n_clusters is >= min_k    *)
(* and <= min(max_k, number of distinct feature vectors).                  *)
C1_ClusterCountBounds ==
    (rpc \in {"returned", "stored"} /\ ~IsScalarResult(results)) =>
        /\ results.n_clusters >= min_k
        /\ results.n_clusters <= Min(max_k, Distinct(features))

(* C4: with subset selection enabled the tiles stored in                   *)
(* img_to_use_at_low_mag are one exemplar per cluster: the stored tile at  *)
(* position c is a tile whose reduced feature vector is closest to the     *)
(* centroid of cluster c.                                                  *)
TileIndex(patch) ==
    CHOOSE i \in 1..Len(original_patches) : original_patches[i] = patch

C4_StoredExemplars ==
    (rpc = "stored" /\ subset) =>
        /\ Len(img_to_use_at_low_mag) = results.n_clusters
        /\ \A c \in 1..results.n_clusters :
               LET t == TileIndex(img_to_use_at_low_mag[c].patch)
               IN  \A j \in 1..Len(pca_features) :
                       SqDistNum(pca_features[t], results.cluster_centers[c - 1])
                           <= SqDistNum(pca_features[j], results.cluster_centers[c - 1])

(* C11: given the recorded inertias, determine_optimal_clusters returns    *)
(* the candidate k whose point (k, inertia(k)) has the largest             *)
(* perpendicular distance to the straight line through the first and the   *)
(* last inertia points; for a curve with a single sharp knee at k0 it      *)
(* returns k0.  The candidate at position i of wcss is k = i + 1.          *)
\* The distance of point i to the line through points 1 and Len(w), times
\* the divisor all points share
ChordDistance(w, i) ==
    Abs((w[Len(w)] - w[1]) * (i - 1) - (Len(w) - 1) * (w[i] - w[1]))

C11_ElbowMaximises ==
    (rpc = "elbow" /\ Len(wcss) >= 2) =>
        /\ n_clusters - 1 \in 1..Len(wcss)
        /\ \A j \in 1..Len(wcss) :
               ChordDistance(wcss, j) <= ChordDistance(wcss, n_clusters - 1)

(* C12: when more than 2 distinct feature vectors exist, the candidate     *)
(* cluster counts for which determine_optimal_clusters records an inertia  *)
(* are exactly every k from 2 up to and including min(max_k, number of     *)
(* distinct feature vectors), and the value it returns lies in [2, max_k]. *)
(* wcss holds one inertia per candidate, in the order 2, 3, ...            *)
C12_CandidateCounts ==
    (rpc = "counted" /\ Distinct(pca_features) > 2) =>
        /\ Len(wcss) = Min(max_k, Distinct(pca_features)) - 1
        /\ n_clusters \in 2..max_k

(* C13: whenever the tiles yield fewer than 3 distinct feature vectors     *)
(* rank_patches_for_diversity returns the degenerate result and no normal  *)
(* clustering result; whenever they yield 3 or more it returns a normal    *)
(* clustering result.                                                      *)
C13_DegenerateResult ==
    rpc \in {"returned", "ValueError"} =>
        /\ rpc = "returned"
        /\ IsScalarResult(results) <=> Distinct(features) < 3

(* C18: for every list of requested frame ids in non-decreasing order      *)
(* (the same id may be requested more than once), the streaming fallback   *)
(* path yields the sequence of (frame id, pixel data) pairs the primary    *)
(* path yields: one pair per request, the pixel data being the decoded     *)
(* data of the frame with the requested id.                                *)
C18_FallbackMatchesPrimary ==
    (/\ fpc = "done"
     /\ fx_path = "fallback"
     /\ \A k \in 1..Len(requests) : requests[k] < number_of_frames
     /\ \A k \in 1..(Len(requests) - 1) : requests[k] <= requests[k + 1]) =>
        yielded = [k \in 1..Len(requests) |->
                      [frame |-> requests[k], img_array |-> FrameData(requests[k])]]

(* C15: for the image assembled by get_single_dcm_img and the image whose  *)
(* frame grid is built by get_frame_dict, if grid_rows * grid_cols differs *)
(* from the image's frame count the operation fails with an error instead  *)
(* of producing a grid image or a frame grid.                              *)
C15_FrameCountMismatch ==
    GridCount(dcm.TotalPixelMatrixRows, dcm.Rows)
        * GridCount(dcm.TotalPixelMatrixColumns, dcm.Columns) # num_frames =>
        /\ apc \in {"called", "ValueError"}
        /\ grid_array = <<>>
        /\ gpc # "grid"
        /\ fd = <<>>

(* C16: in any sequence of get_representatives and get_high_res calls on   *)
(* one instance, get_high_res maps and extracts frames only if an earlier  *)
(* get_representatives call completed; if none has, get_high_res raises an *)
(* error and leaves low_res_dcm, img_to_use_at_low_mag and high_mag_dcm    *)
(* unchanged; low_res_dcm and img_to_use_at_low_mag are always either both *)
(* unset or both set.                                                      *)
StoredBefore(i) ==
    \E j \in 1..(i - 1) :
        calls[j].op = "get_representatives" /\ calls[j].outcome = "stored"

C16_RankingBeforeMapping ==
    /\ (low_res_dcm = "None") <=> (img_to_use_at_low_mag = <<>>)
    /\ \A i \in 1..Len(calls) :
           calls[i].op = "get_high_res" =>
               /\ calls[i].outcome \in {"MagPairsError", "frames"} => StoredBefore(i)
               /\ ~StoredBefore(i) =>
                      /\ calls[i].outcome = "ValueError"
                      /\ calls[i].after = calls[i].before

C16_Witness ==
    /\ Len(calls) = 4
    /\ calls[1].op = "get_representatives" /\ calls[1].outcome = "error"
    /\ calls[2].op = "get_high_res" /\ calls[2].outcome = "ValueError"
    /\ calls[3].op = "get_representatives" /\ calls[3].outcome = "stored"
    /\ calls[4].op = "get_high_res" /\ calls[4].outcome = "frames"
    /\ high_mag_dcm = HighMagPair(low_res_dcm)

(* C14: for every pair of low- and high-magnification pixel spacings used  *)
(* by MagPairs the scaling factor equals floor(low spacing / high spacing) *)
(* and is an integer >= 1; a pair that would give a factor below 1, or a   *)
(* zero or non-positive spacing, is never used to map tiles.               *)
C14_ScalingFactor ==
    mpc \in {"mapped", "extracting", "done"} =>
        /\ pixel_spacing_at_low_mag > 0
        /\ pixel_spacing_at_high_mag > 0
        /\ scaling_factor = pixel_spacing_at_low_mag \div pixel_spacing_at_high_mag
        /\ scaling_factor >= 1

(* C17: with all_frames false, every frame of clean_high_mag_frames (a) is *)
(* classified foreground by is_foreground and (b) intersects, under the    *)
(* closed-interval test, the high-magnification box (s*x0, s*(x0+w), s*y0, *)
(* s*(y0+h)) of at least one selected low-magnification tile with origin   *)
(* (x0, y0), size (w, h) and scaling factor s; and the list is a           *)
(* subsequence of the extracted frame sequence.                            *)
RECURSIVE IsSubsequence(_, _)
IsSubsequence(a, b) ==
    IF a = <<>> THEN TRUE
    ELSE IF b = <<>> THEN FALSE
    ELSE \/ Head(a) = Head(b) /\ IsSubsequence(Tail(a), Tail(b))
         \/ IsSubsequence(a, Tail(b))

TileBoxMeets(t, f, s) ==
    LET x0 == t.patch.coord[1]
        y0 == t.patch.coord[2]
        w == t.patch.box[3] - t.patch.box[1]
        h == t.patch.box[4] - t.patch.box[2]
    IN  /\ s * x0 <= f.col_max /\ s * (x0 + w) >= f.col_min
        /\ s * y0 <= f.row_max /\ s * (y0 + h) >= f.row_min

C17_CleanFrames ==
    (mpc = "done" /\ ~all_frames) =>
        /\ \A k \in 1..Len(clean_high_mag_frames) :
               LET f == clean_high_mag_frames[k]
               IN  /\ 2 * Cardinality(BackgroundPixels(frame_tiles[f.img_array.index]))
                           <= Len(frame_tiles[f.img_array.index])
                   /\ \E t \in 1..Len(img_to_use_at_low_mag) :
                          TileBoxMeets(img_to_use_at_low_mag[t], fd[f.frame + 1],
                                       scaling_factor)
        /\ IsSubsequence(clean_high_mag_frames, high_mag_frames)

C17_Witness ==
    /\ mpc = "done"
    /\ ~all_frames
    /\ scaling_factor = 2
    /\ Len(clean_high_mag_frames) >= 1
    /\ Len(clean_high_mag_frames) < Len(high_mag_frames)
    /\ \E k \in 1..Len(fd) : \A i \in 1..Len(requests) : requests[i] # fd[k].frame

====
